---- MODULE Spec2Model ----
(***************************************************************************)
(* Model of scalc, the postfix stack calculator built on parlex:           *)
(*   Eval(str) = evalStack(rdcr.Reduce(prsr.Parse(lxr.Lex(str))))          *)
(* The lexer and the packrat parser are generic engines; the parser is     *)
(* modelled as a nondeterministic leftmost derivation over grammarRules    *)
(* (one action per production), so every derivation tree of the grammar    *)
(* within the token bound is produced.  The reducer table and the          *)
(* evaluator are translated from the source.                               *)
(*                                                                         *)
(* A parse node is [id, kind, value, C]: id stands for the node's address  *)
(* (a *tree.PN), kind and value are its lexeme, C its children.  Lexeme    *)
(* text is a sequence of one-character strings.  float64 values are        *)
(* modelled as exact rationals <<n, d>> (d > 0, lowest terms) plus the     *)
(* IEEE specials.                                                          *)
(***************************************************************************)
EXTENDS Integers, Sequences, FiniteSets, TLC

VARIABLES
    pc,     \* "parse", "reduced", "done": where Eval(str) stands
    input,  \* the shape and the parts of the program, where a specification fixes them
    todo,   \* the paths of tree's unexpanded nonterminals, leftmost first
    ntok,   \* the tokens derived so far
    nid,    \* the nodes allocated so far
    tree,   \* the derivation tree, as the parser returns it
    node,   \* the tree the reducer and evalStack rewrite in place
    out,    \* the []Pfloat Eval returns
    log,    \* the calls evalStack made, in call order
    panic   \* whether evalStack panicked

vars == <<pc, input, todo, ntok, nid, tree, node, out, log, panic>>

\* ---------------------------------------------------------------- bounds
\* tokens of a derived program
MaxTokens == 6
\* elements of the sequence an aggregate or a stack manipulation is applied to
MaxStack == 3

\* ------------------------------------------------------- lexeme texts
\* the lexemes the derived programs are spelled with
IntTexts == { <<"1", "2">> }
DecTexts == { <<".", "5">> }
UopTexts == { <<"-", "-">> }
BopTexts == { <<"-">> }
SopTexts == { <<"l", "e", "n">> }
SmpTexts == { <<"s", "w", "a", "p">> }

NoText == << >>
Nil == [id |-> 0, kind |-> "nil", value |-> NoText, C |-> << >>]

Mk(i, k, v, c) == [id |-> i, kind |-> k, value |-> v, C |-> c]

\* F applied to the value of x: x is evaluated once, before F's body
With(x, F(_)) == CHOOSE r \in {F(v) : v \in {x}} : TRUE

\* ------------------------------------------------- package tree (PN)
GetIdx(n, cIdx) == IF cIdx < 0 THEN Len(n.C) + cIdx ELSE cIdx

IdxOk(n, cIdx) == GetIdx(n, cIdx) >= 0 /\ GetIdx(n, cIdx) < Len(n.C)

Child(n, cIdx) == IF IdxOk(n, cIdx) THEN n.C[GetIdx(n, cIdx) + 1] ELSE Nil

ChildAt(n, cIdx, kinds) == IdxOk(n, cIdx) /\ Child(n, cIdx).kind \in kinds

Before(n, cIdx) == SubSeq(n.C, 1, GetIdx(n, cIdx))

After(n, cIdx) == SubSeq(n.C, GetIdx(n, cIdx) + 2, Len(n.C))

RemoveChild(n, cIdx) ==
    IF IdxOk(n, cIdx)
    THEN [n EXCEPT !.C = Before(n, cIdx) \o After(n, cIdx)]
    ELSE n

PromoteChildrenOf(n, cIdx) ==
    IF IdxOk(n, cIdx)
    THEN [n EXCEPT !.C = Before(n, cIdx) \o Child(n, cIdx).C \o After(n, cIdx)]
    ELSE n

PromoteChild(n, cIdx) ==
    IF IdxOk(n, cIdx)
    THEN [id |-> n.id, kind |-> Child(n, cIdx).kind, value |-> Child(n, cIdx).value,
          C |-> Before(n, cIdx) \o Child(n, cIdx).C \o After(n, cIdx)]
    ELSE n

PromoteSingleChild(n) == IF Len(n.C) = 1 THEN PromoteChild(n, 0) ELSE n

ReplaceWithChild(n, cIdx) ==
    IF IdxOk(n, cIdx)
    THEN [id |-> n.id, kind |-> Child(n, cIdx).kind, value |-> Child(n, cIdx).value,
          C |-> Child(n, cIdx).C]
    ELSE n

\* ------------------------------------------------------ the reducer
stack(n) ==
    LET n1 == IF ChildAt(n, -1, {"Stack"}) THEN PromoteChildrenOf(n, -1) ELSE n
        n2 == IF ChildAt(n1, 0, {"Stack"}) THEN PromoteChildrenOf(n1, 0) ELSE n1
    IN  IF ChildAt(n2, -1, {"smp", "?"})
        THEN PromoteChild(n2, -1)
        ELSE PromoteSingleChild(n2)

rdcr(n) ==
    CASE n.kind = "Stack" -> stack(n)
      [] n.kind = "E"     -> PromoteChild(n, -1)
      [] n.kind = "P"     -> ReplaceWithChild(n, 1)
      [] n.kind = "Bop"   -> PromoteChild(n, -1)
      [] n.kind = "Uop"   -> PromoteChild(n, -1)
      [] n.kind = "Sop"   -> PromoteChild(n, -1)
      [] n.kind = "Smp"   -> PromoteChild(n, -1)
      [] OTHER            -> n

RECURSIVE Reduce(_)
Reduce(n) ==
    With([n EXCEPT !.C = [i \in 1..Len(n.C) |-> Reduce(n.C[i])]], rdcr)

\* ------------------------------------------------- float64 values
\* <<n, d>>: d > 0 a finite value in lowest terms, <<1, 0>> +Inf, <<-1, 0>> -Inf,
\* <<0, 0>> NaN.  Signed zeros are not distinguished.  <<1, -1>> stands for a
\* positive finite value that is no rational (a power with a fractional exponent).
NaN == <<0, 0>>
PosInf == <<1, 0>>
NegInf == <<-1, 0>>
Irrational == <<1, -1>>
Zero == <<0, 1>>
One == <<1, 1>>

Abs(i) == IF i < 0 THEN -i ELSE i

Sign(i) == IF i < 0 THEN -1 ELSE IF i > 0 THEN 1 ELSE 0

RECURSIVE GCD(_, _)
GCD(a, b) == IF b = 0 THEN a ELSE GCD(b, a % b)

\* n/d for d # 0, in lowest terms with a positive denominator
Norm(n, d) ==
    LET g == GCD(Abs(n), Abs(d))
    IN  <<Sign(d) * (n \div g), Abs(d) \div g>>

IsNaN(x) == x = NaN
IsInf(x) == x[2] = 0 /\ x[1] # 0
IsFinite(x) == x[2] > 0

Neg(x) == <<-x[1], x[2]>>

Add(x, y) ==
    IF IsNaN(x) \/ IsNaN(y) THEN NaN
    ELSE IF IsInf(x) THEN (IF IsInf(y) /\ y # x THEN NaN ELSE x)
    ELSE IF IsInf(y) THEN y
    ELSE Norm(x[1] * y[2] + y[1] * x[2], x[2] * y[2])

Mul(x, y) ==
    IF IsNaN(x) \/ IsNaN(y) THEN NaN
    ELSE IF IsInf(x) \/ IsInf(y)
         THEN (IF x[1] = 0 \/ y[1] = 0 THEN NaN ELSE <<Sign(x[1]) * Sign(y[1]), 0>>)
    ELSE Norm(x[1] * y[1], x[2] * y[2])

Quo(x, y) ==
    IF IsNaN(x) \/ IsNaN(y) THEN NaN
    ELSE IF IsInf(x) THEN (IF IsInf(y) THEN NaN
                           ELSE <<x[1] * (IF y[1] < 0 THEN -1 ELSE 1), 0>>)
    ELSE IF IsInf(y) THEN Zero
    ELSE IF y[1] = 0 THEN (IF x[1] = 0 THEN NaN ELSE <<Sign(x[1]), 0>>)
    ELSE Norm(x[1] * y[2], x[2] * y[1])

\* x > y; false when either is NaN
Gt(x, y) ==
    IF IsNaN(x) \/ IsNaN(y) THEN FALSE
    ELSE IF IsInf(x) /\ IsInf(y) THEN x[1] > y[1]
    ELSE x[1] * y[2] > y[1] * x[2]

Lt(x, y) == Gt(y, x)

Eq(x, y) == ~IsNaN(x) /\ ~IsNaN(y) /\ x = y

\* the integer part of a finite value, rounded toward zero
Trunc(x) == Sign(x[1]) * (Abs(x[1]) \div x[2])

\* math.Mod
Mod(x, y) ==
    IF IsNaN(x) \/ IsNaN(y) \/ IsInf(x) \/ y[1] = 0 THEN NaN
    ELSE IF IsInf(y) THEN x
    ELSE Add(x, Neg(Mul(y, <<Trunc(Quo(x, y)), 1>>)))

RECURSIVE IntPow(_, _)
IntPow(x, k) == IF k = 0 THEN One ELSE Mul(x, IntPow(x, k - 1))

IsInteger(x) == x[2] = 1

IsOdd(x) == IsInteger(x) /\ x[1] % 2 = 1

\* math.Pow
Pow(x, y) ==
    IF y = Zero \/ x = One THEN One
    ELSE IF y = One THEN x
    ELSE IF IsNaN(x) \/ IsNaN(y) THEN NaN
    ELSE IF x = Zero
         THEN (IF Gt(y, Zero) THEN Zero ELSE PosInf)
    ELSE IF IsInf(y)
         THEN (IF x = <<-1, 1>> THEN One
               ELSE IF (Abs(x[1]) > x[2] \/ IsInf(x)) = (y = PosInf) THEN PosInf ELSE Zero)
    ELSE IF IsInf(x)
         THEN (IF Gt(y, Zero)
               THEN (IF x = NegInf /\ IsOdd(y) THEN NegInf ELSE PosInf)
               ELSE Zero)
    ELSE IF IsInteger(y)
         THEN (IF y[1] > 0 THEN IntPow(x, y[1]) ELSE Quo(One, IntPow(x, -y[1])))
    ELSE IF x[1] < 0 THEN NaN
    ELSE Irrational

\* ------------------------------------------------- strconv.ParseFloat
DigitOf ==
    ("0" :> 0) @@ ("1" :> 1) @@ ("2" :> 2) @@ ("3" :> 3) @@ ("4" :> 4) @@
    ("5" :> 5) @@ ("6" :> 6) @@ ("7" :> 7) @@ ("8" :> 8) @@ ("9" :> 9)

IsDigits(t) == \A i \in 1..Len(t) : t[i] \in DOMAIN DigitOf

RECURSIVE DigitsVal(_)
DigitsVal(t) ==
    IF t = << >> THEN 0
    ELSE 10 * DigitsVal(SubSeq(t, 1, Len(t) - 1)) + DigitOf[t[Len(t)]]

RECURSIVE Pow10(_)
Pow10(k) == IF k = 0 THEN 1 ELSE 10 * Pow10(k - 1)

\* the decimal forms [+-]?digits[.digits] and [+-]?.digits; everything else the
\* lexeme texts of this grammar can spell is a syntax error
ParseFloat(t) ==
    LET signed == t # << >> /\ t[1] \in {"+", "-"}
        body   == IF signed THEN Tail(t) ELSE t
        dots   == {i \in 1..Len(body) : body[i] = "."}
        dot    == IF dots = {} THEN Len(body) + 1 ELSE CHOOSE i \in dots : TRUE
        ip     == SubSeq(body, 1, dot - 1)
        fp     == SubSeq(body, dot + 1, Len(body))
        ok     == /\ Cardinality(dots) <= 1
                  /\ IsDigits(ip) /\ IsDigits(fp)
                  /\ Len(ip) + Len(fp) > 0
        mag    == Norm(DigitsVal(ip) * Pow10(Len(fp)) + DigitsVal(fp), Pow10(Len(fp)))
    IN  [ok |-> ok,
         f  |-> IF ~ok THEN Zero
                ELSE IF signed /\ t[1] = "-" THEN Neg(mag) ELSE mag]

\* ------------------------------------------------------ the evaluator
Pfloat(v, p) == [V |-> v, P |-> p]

PfloatZero == Pfloat(Zero, 0)

RECURSIVE maxPrecisionFrom(_, _)
maxPrecisionFrom(pfs, m) ==
    IF pfs = << >> THEN m
    ELSE maxPrecisionFrom(Tail(pfs), IF Head(pfs).P > m THEN Head(pfs).P ELSE m)

maxPrecision(pfs) == maxPrecisionFrom(pfs, 0)

\* the ids of a node and of all nodes below it
RECURSIVE Ids(_)
Ids(n) == {n.id} \cup UNION {Ids(n.C[i]) : i \in 1..Len(n.C)}

\* one entry of the call log: function fn was applied to node id, whose kind was
\* kind; from names the call site; res is the value an evalE call returned
Event(fn, n, from) ==
    [fn |-> fn, id |-> n.id, kind |-> n.kind, from |-> from,
     res |-> PfloatZero, bad |-> FALSE, ids |-> {}, kids |-> << >>]

swap == <<"s", "w", "a", "p">>
drop == <<"d", "r", "o", "p">>
clear == <<"c", "l", "e", "a", "r">>

\* evalSmp with swap exchanging the first two children instead of the last two
evalSmpFirstTwo(op) ==
    CASE op.value = swap ->
           IF Len(op.C) > 1
           THEN [op EXCEPT !.C = <<op.C[2], op.C[1]>> \o SubSeq(op.C, 3, Len(op.C))]
           ELSE op
      [] op.value = drop ->
           IF Len(op.C) > 0
           THEN [op EXCEPT !.C = SubSeq(op.C, 1, Len(op.C) - 1)]
           ELSE op
      [] op.value = clear -> [op EXCEPT !.C = << >>]
      [] OTHER -> op

evalSmp(op) ==
    CASE op.value = swap ->
           IF Len(op.C) > 1
           THEN [op EXCEPT !.C = SubSeq(op.C, 1, Len(op.C) - 2)
                                  \o <<op.C[Len(op.C)], op.C[Len(op.C) - 1]>>]
           ELSE op
      [] op.value = drop ->
           IF Len(op.C) > 0
           THEN [op EXCEPT !.C = SubSeq(op.C, 1, Len(op.C) - 1)]
           ELSE op
      [] op.value = clear -> [op EXCEPT !.C = << >>]
      [] OTHER -> op

evalUop(ae, op) ==
    CASE op = <<"-", "-">> -> [ae EXCEPT !.V = Neg(ae.V)]
      [] op = <<"a", "b", "s">> ->
           IF Lt(ae.V, Zero) THEN [ae EXCEPT !.V = Neg(ae.V)] ELSE ae
      [] OTHER -> ae

\* the value evalBop computes
bopValue(ae, be, op) ==
    CASE op = <<"+">> -> Add(ae.V, be.V)
      [] op = <<"*">> -> Mul(ae.V, be.V)
      [] op = <<"/">> -> Quo(ae.V, be.V)
      [] op = <<"-">> -> Add(ae.V, Neg(be.V))
      [] op = <<"^">> -> Pow(ae.V, be.V)
      [] op = <<"%">> -> Mod(ae.V, be.V)
      [] op = <<">">> -> IF Gt(ae.V, be.V) THEN One ELSE Zero
      [] op = <<"<">> -> IF Lt(ae.V, be.V) THEN One ELSE Zero
      [] op = <<"=">> -> IF Eq(ae.V, be.V) THEN One ELSE Zero
      [] op = <<"c", "m", "p", "r">> ->
           IF Gt(ae.V, be.V) THEN One
           ELSE IF Lt(ae.V, be.V) THEN <<-1, 1>> ELSE Zero
      [] OTHER -> Zero

\* evalBop with a comparison's precision reset to 0
evalBopResetsComparisons(ae, be, op) ==
    Pfloat(bopValue(ae, be, op),
           IF op \in { <<">">>, <<"<">>, <<"=">>, <<"c", "m", "p", "r">> }
           THEN 0 ELSE maxPrecision(<<ae, be>>))

evalBop(ae, be, op) ==
    Pfloat(bopValue(ae, be, op), maxPrecision(<<ae, be>>))

RECURSIVE SumV(_)
SumV(st) == IF st = << >> THEN Zero ELSE Add(SumV(SubSeq(st, 1, Len(st) - 1)), st[Len(st)].V)

\* the loops of min and max: v is the element kept so far
RECURSIVE Pick(_, _, _)
Pick(st, v, less) ==
    IF st = << >> THEN v
    ELSE Pick(Tail(st),
              IF (IF less THEN Lt(Head(st).V, v.V) ELSE Gt(Head(st).V, v.V))
              THEN Head(st) ELSE v,
              less)

\* evalSop with "first" and "last" returning the element they name
evalSopAsNamed(st, op) ==
    CASE op \in { <<"s", "u", "m">>, <<"a", "v", "g">> } ->
           Pfloat(IF op = <<"a", "v", "g">> /\ Len(st) > 0
                  THEN Quo(SumV(st), <<Len(st), 1>>)
                  ELSE SumV(st),
                  maxPrecision(st))
      [] op = <<"l", "e", "n">> -> Pfloat(<<Len(st), 1>>, 0)
      [] op = <<"m", "i", "n">> ->
           IF Len(st) > 0 THEN Pick(Tail(st), st[1], TRUE) ELSE PfloatZero
      [] op = <<"m", "a", "x">> ->
           IF Len(st) > 0 THEN Pick(Tail(st), st[1], FALSE) ELSE PfloatZero
      [] op = <<"f", "i", "r", "s", "t">> ->
           IF Len(st) > 0 THEN st[1] ELSE PfloatZero
      [] op = <<"l", "a", "s", "t">> ->
           IF Len(st) > 0 THEN st[Len(st)] ELSE PfloatZero
      [] OTHER -> PfloatZero

evalSop(st, op) ==
    CASE op \in { <<"s", "u", "m">>, <<"a", "v", "g">> } ->
           Pfloat(IF op = <<"a", "v", "g">> /\ Len(st) > 0
                  THEN Quo(SumV(st), <<Len(st), 1>>)
                  ELSE SumV(st),
                  maxPrecision(st))
      [] op = <<"l", "e", "n">> -> Pfloat(<<Len(st), 1>>, 0)
      [] op = <<"m", "i", "n">> ->
           IF Len(st) > 0 THEN Pick(Tail(st), st[1], TRUE) ELSE PfloatZero
      [] op = <<"m", "a", "x">> ->
           IF Len(st) > 0 THEN Pick(Tail(st), st[1], FALSE) ELSE PfloatZero
      [] op = <<"l", "a", "s", "t">> ->
           IF Len(st) > 0 THEN st[1] ELSE PfloatZero
      [] op = <<"f", "i", "r", "s", "t">> ->
           IF Len(st) > 0 THEN st[Len(st)] ELSE PfloatZero
      [] OTHER -> PfloatZero

\* the Number case of evalE; bad: the literal text did not parse
evalNumber(n) ==
    IF Len(n.C) = 2
    THEN LET c1 == n.C[2].value
             r  == ParseFloat(n.C[1].value \o c1)
         IN  [v |-> Pfloat(r.f, Len(c1) - 1), bad |-> ~r.ok]
    ELSE IF Len(n.C) = 1
    THEN LET r == ParseFloat(n.C[1].value)
         IN  [v |-> Pfloat(r.f, 0), bad |-> ~r.ok]
    ELSE [v |-> PfloatZero, bad |-> FALSE]

\* the "?" case keeping the branch the code removes
selectBranchInverted(n, v) ==
    LET n1 == RemoveChild(n, -1)
    IN  IF Gt(v, Zero)
        THEN PromoteChild(RemoveChild(n1, -1), -1)
        ELSE PromoteChild(RemoveChild(n1, -2), -1)

\* the "?" case of evalStack after the condition was evaluated to v: the
\* condition and the unselected child are removed, the selected one is promoted
selectBranch(n, v) ==
    LET n1 == RemoveChild(n, -1)
    IN  IF Gt(v, Zero)
        THEN PromoteChild(RemoveChild(n1, -2), -1)
        ELSE PromoteChild(RemoveChild(n1, -1), -1)

\* the child selectBranch removes unevaluated
unselected(n, v) ==
    LET n1 == RemoveChild(n, -1)
    IN  IF Gt(v, Zero) THEN Child(n1, -2) ELSE Child(n1, -1)

Panicked(l) == [v |-> PfloatZero, out |-> << >>, log |-> l, panic |-> TRUE]

\* evalE, evalStack and the loop of evalStack's Stack case.  Each returns the
\* value(s), the log of the calls made, in call order, and whether the call
\* panicked (an index out of range, a failed type assertion).
RECURSIVE evalE(_, _)
RECURSIVE evalStack(_, _)
RECURSIVE evalEach(_)

evalE(n, from) ==
    LET ev(res, bad) == [Event("evalE", n, from) EXCEPT !.res = res, !.bad = bad]
    IN  CASE n.kind = "Number" ->
               With(evalNumber(n), LAMBDA r :
                   [v |-> r.v, log |-> <<ev(r.v, r.bad)>>, panic |-> FALSE])
          [] n.kind = "uop" ->
               IF Len(n.C) < 1 THEN Panicked(<<ev(PfloatZero, FALSE)>>)
               ELSE With(evalE(n.C[1], "operand"), LAMBDA a :
                    With(evalUop(a.v, n.value), LAMBDA v :
                        [v |-> v, log |-> <<ev(v, FALSE)>> \o a.log, panic |-> a.panic]))
          [] n.kind = "bop" ->
               IF Len(n.C) < 2 THEN Panicked(<<ev(PfloatZero, FALSE)>>)
               ELSE With(evalE(n.C[1], "operand"), LAMBDA a :
                    IF a.panic THEN Panicked(<<ev(PfloatZero, FALSE)>> \o a.log)
                    ELSE With(evalE(n.C[2], "operand"), LAMBDA b :
                         With(evalBop(a.v, b.v, n.value), LAMBDA v :
                             [v |-> v, log |-> <<ev(v, FALSE)>> \o a.log \o b.log,
                              panic |-> b.panic])))
          [] n.kind = "sop" ->
               IF Len(n.C) < 1 THEN Panicked(<<ev(PfloatZero, FALSE)>>)
               ELSE With(evalStack(n.C[1], "sop"), LAMBDA st :
                    With(evalSop(st.out, n.value), LAMBDA v :
                        [v |-> v, log |-> <<ev(v, FALSE)>> \o st.log, panic |-> st.panic]))
          [] OTHER ->
               [v |-> PfloatZero, log |-> <<ev(PfloatZero, FALSE)>>, panic |-> FALSE]

evalEach(cs) ==
    IF cs = << >> THEN [out |-> << >>, log |-> << >>, panic |-> FALSE]
    ELSE With(evalE(Head(cs), "stack"), LAMBDA h :
         IF h.panic THEN [out |-> << >>, log |-> h.log, panic |-> TRUE]
         ELSE With(evalEach(Tail(cs)), LAMBDA t :
              [out |-> <<h.v>> \o t.out, log |-> h.log \o t.log, panic |-> t.panic]))

evalStack(n, from) ==
    LET enter == Event("evalStack", n, from)
    IN  CASE n.kind = "?" ->
               IF Len(n.C) = 0 THEN Panicked(<<enter>>)
               ELSE With(evalE(Child(n, -1), "cond"), LAMBDA c :
                    IF c.panic THEN Panicked(<<enter>> \o c.log)
                    ELSE With(unselected(n, c.v.V), LAMBDA u :
                         With(selectBranch(n, c.v.V), LAMBDA m :
                         With(evalStack(m, "select"), LAMBDA r :
                             [v |-> PfloatZero, out |-> r.out,
                              log |-> <<enter>> \o c.log
                                      \o <<[Event("select", n, from) EXCEPT
                                              !.kids = <<Child(n, -1).id>>,
                                              !.ids = IF u = Nil THEN {} ELSE Ids(u)]>>
                                      \o r.log,
                              panic |-> r.panic]))))
          [] n.kind = "smp" ->
               With(evalSmp(n), LAMBDA m :
               With(evalEach(m.C), LAMBDA r :
                   [v |-> PfloatZero, out |-> r.out,
                    log |-> <<enter,
                              [Event("evalSmp", n, from) EXCEPT
                                 !.kids = [i \in 1..Len(n.C) |-> n.C[i].id]]>>
                            \o r.log,
                    panic |-> r.panic]))
          [] n.kind = "Stack" ->
               With(evalEach(n.C), LAMBDA r :
                   [v |-> PfloatZero, out |-> r.out, log |-> <<enter>> \o r.log,
                    panic |-> r.panic])
          [] OTHER ->
               With(evalE(n, "default"), LAMBDA e :
                   [v |-> PfloatZero, out |-> IF e.panic THEN << >> ELSE <<e.v>>,
                    log |-> <<enter>> \o e.log, panic |-> e.panic])


\* ------------------------------------------------------- the parser
RECURSIVE NodeAt(_, _)
NodeAt(n, path) == IF path = << >> THEN n ELSE NodeAt(n.C[Head(path)], Tail(path))

RECURSIVE SetAt(_, _, _)
SetAt(n, path, m) ==
    IF path = << >> THEN m
    ELSE [n EXCEPT !.C[Head(path)] = SetAt(n.C[Head(path)], Tail(path), m)]

\* fewest tokens in a string derived from a symbol
MinTokens(k) == CASE k = "Stack" -> 0 [] k = "P" -> 2 [] OTHER -> 1

RECURSIVE SumTokens(_)
SumTokens(s) == IF s = << >> THEN 0 ELSE MinTokens(Head(s)) + SumTokens(Tail(s))

IsToken(sym) == sym[2] # NoText

\* Expand the leftmost nonterminal, of kind lhs, by a production whose
\* right-hand side is rhs: a sequence of <<kind, text>>, text empty for a
\* nonterminal.
Derive(lhs, rhs) ==
    LET path  == Head(todo)
        cur   == NodeAt(tree, path)
        kinds == [i \in 1..Len(rhs) |-> rhs[i][1]]
        rest  == [i \in 1..Len(todo) - 1 |-> NodeAt(tree, todo[i + 1]).kind]
        kids  == [i \in 1..Len(rhs) |-> Mk(nid + i, rhs[i][1], rhs[i][2], << >>)]
        open  == SelectSeq([i \in 1..Len(rhs) |-> <<i, rhs[i]>>],
                           LAMBDA x : ~IsToken(x[2]))
    IN  /\ pc = "parse"
        /\ todo # << >>
        /\ cur.kind = lhs
        /\ ntok + SumTokens(kinds) + SumTokens(rest) <= MaxTokens
        /\ tree' = SetAt(tree, path, [cur EXCEPT !.C = kids])
        /\ todo' = [i \in 1..Len(open) |-> Append(path, open[i][1])] \o Tail(todo)
        /\ ntok' = ntok + Len(SelectSeq(rhs, IsToken))
        /\ nid' = nid + Len(rhs)
        /\ UNCHANGED <<pc, input, node, out, log, panic>>

N(k) == <<k, NoText>>

Q == <<"?", <<"?">> >>

StackSmp    == Derive("Stack", <<N("Stack"), N("Smp")>>)
StackEStack == Derive("Stack", <<N("E"), N("Stack")>>)
StackPStack == Derive("Stack", <<N("Stack"), N("P"), N("Stack")>>)
StackEmpty  == Derive("Stack", << >>)
ESop        == Derive("E", <<N("Stack"), N("Sop")>>)
ETernary    == Derive("E", <<N("E"), N("E"), N("E"), Q>>)
EUop        == Derive("E", <<N("E"), N("Uop")>>)
EBop        == Derive("E", <<N("E"), N("E"), N("Bop")>>)
ENumber     == Derive("E", <<N("Number")>>)
NumberInt   == \E i \in IntTexts : Derive("Number", << <<"int", i>> >>)
NumberIntDec ==
    \E i \in IntTexts, d \in DecTexts :
        Derive("Number", << <<"int", i>>, <<"dec", d>> >>)
PGroup      == Derive("P", << <<"(", <<"(">> >>, N("Stack"), <<")", <<")">> >> >>)
BopTok      == \E t \in BopTexts : Derive("Bop", << <<"bop", t>> >>)
BopChoice   == Derive("Bop", <<N("Bop"), N("Bop"), N("E"), Q>>)
UopTok      == \E t \in UopTexts : Derive("Uop", << <<"uop", t>> >>)
UopChoice   == Derive("Uop", <<N("Uop"), N("Uop"), N("E"), Q>>)
SopTok      == \E t \in SopTexts : Derive("Sop", << <<"sop", t>> >>)
SopChoice   == Derive("Sop", <<N("Sop"), N("Sop"), N("E"), Q>>)
SmpTok      == \E t \in SmpTexts : Derive("Smp", << <<"smp", t>> >>)
SmpChoice   == Derive("Smp", <<N("Smp"), N("Smp"), N("E"), Q>>)

\* ------------------------------------------- derivation trees of programs
\* The derivation tree of a program of a given shape, built production by
\* production; Label gives every node its own id, in preorder.
Leaf(k, t) == Mk(0, k, t, << >>)

Inner(k, c) == Mk(0, k, NoText, c)

\* Number -> int | int dec, E -> Number
Literal(int, dec) ==
    Inner("E", << Inner("Number", IF dec = NoText THEN <<Leaf("int", int)>>
                                  ELSE <<Leaf("int", int), Leaf("dec", dec)>>) >>)

\* Stack -> E Stack | (empty)
RECURSIVE Sequence(_)
Sequence(es) ==
    IF es = << >> THEN Inner("Stack", << >>)
    ELSE Inner("Stack", <<Head(es), Sequence(Tail(es))>>)

\* Bop -> bop and its like
Operator(K, k, t) == Inner(K, <<Leaf(k, t)>>)

\* E -> E E E ?, Bop -> Bop Bop E ? and its like
Choice(K, a, b, c) == Inner(K, <<a, b, c, Leaf("?", <<"?">>)>>)

Unary(a, op) == Inner("E", <<a, op>>)

Binary(a, b, op) == Inner("E", <<a, b, op>>)

\* E -> Stack Sop
Aggregate(st, op) == Inner("E", <<st, op>>)

\* Stack -> Stack Smp
Manip(st, op) == Inner("Stack", <<st, op>>)

RECURSIVE Label(_, _)
RECURSIVE LabelEach(_, _)
Label(n, k) ==
    With(LabelEach(n.C, k + 1), LAMBDA cs :
        <<[n EXCEPT !.id = k, !.C = cs[1]], cs[2]>>)

LabelEach(ns, k) ==
    IF ns = << >> THEN << << >>, k >>
    ELSE With(Label(Head(ns), k), LAMBDA h :
         With(LabelEach(Tail(ns), h[2]), LAMBDA t :
             << <<h[1]>> \o t[1], t[2] >>))

Program(st) == With(st, LAMBDA t : Head(Label(t, 1)))

\* what Eval returns for the program whose derivation tree is st
Run(st) ==
    With(Program(st), LAMBDA t :
    With(Reduce(t), LAMBDA m : evalStack(m, "Eval")))

\* Parse: the derivation is complete, the reducer canonicalizes the tree
Parse ==
    /\ pc = "parse"
    /\ todo = << >>
    /\ node' = Reduce(tree)
    /\ pc' = "reduced"
    /\ UNCHANGED <<input, todo, ntok, nid, tree, out, log, panic>>

\* Eval: evalStack on the canonical tree
Eval ==
    /\ pc = "reduced"
    /\ \E r \in {evalStack(node, "Eval")} :
           /\ out' = r.out
           /\ log' = r.log
           /\ panic' = r.panic
    /\ pc' = "done"
    /\ UNCHANGED <<input, todo, ntok, nid, tree, node>>

Init ==
    /\ pc = "parse"
    /\ todo = << << >> >>
    /\ input = [shape |-> "derived"]
    /\ ntok = 0
    /\ nid = 1
    /\ tree = Mk(1, "Stack", NoText, << >>)
    /\ node = Nil
    /\ out = << >>
    /\ log = << >>
    /\ panic = FALSE

Grammar ==
    \/ StackSmp \/ StackEStack \/ StackPStack \/ StackEmpty
    \/ ESop \/ ETernary \/ EUop \/ EBop \/ ENumber
    \/ NumberInt \/ NumberIntDec \/ PGroup
    \/ BopTok \/ BopChoice \/ UopTok \/ UopChoice
    \/ SopTok \/ SopChoice \/ SmpTok \/ SmpChoice

Next == Grammar \/ Parse \/ Eval

Spec == Init /\ [][Next]_vars


\* --------------------------------------------- programs of a fixed shape
\* Literals with the value and the precision they denote.
Operands ==
    { [int |-> <<"0">>,      dec |-> NoText,             v |-> <<0, 1>>,  p |-> 0],
      [int |-> <<"2">>,      dec |-> NoText,             v |-> <<2, 1>>,  p |-> 0],
      [int |-> <<"-", "3">>, dec |-> NoText,             v |-> <<-3, 1>>, p |-> 0],
      [int |-> <<"2">>,      dec |-> <<".", "0">>,       v |-> <<2, 1>>,  p |-> 1],
      [int |-> <<"1">>,      dec |-> <<".", "5", "0">>,  v |-> <<3, 2>>,  p |-> 2],
      [int |-> <<"-", "3">>, dec |-> <<".", "5">>,       v |-> <<-7, 2>>, p |-> 1] }

Lit(x) == Literal(x.int, x.dec)

Denoted(x) == Pfloat(x.v, x.p)

AllBopTexts ==
    { <<"+">>, <<"-">>, <<"*">>, <<"/">>, <<"^">>, <<"%">>, <<">">>, <<"<">>, <<"=">>,
      <<"c", "m", "p", "r">> }

AllSopTexts ==
    { <<"l", "e", "n">>, <<"s", "u", "m">>, <<"a", "v", "g">>, <<"m", "i", "n">>,
      <<"m", "a", "x">>, <<"f", "i", "r", "s", "t">>, <<"l", "a", "s", "t">> }

AllSmpTexts == { swap, drop, clear }

Bop(t) == Operator("Bop", "bop", t)

Stacks == UNION { [1..n -> Operands] : n \in 0..MaxStack }

\* expressions the operands of a ternary are drawn from
Atoms == { Literal(<<"1">>, NoText), Literal(<<"-", "1">>, NoText) }

Exprs ==
    Atoms
    \cup { Choice("E", a, b, c) : a \in Atoms, b \in Atoms, c \in Atoms }
    \cup { Unary(a, Operator("Uop", "uop", <<"-", "-">>)) : a \in Atoms }
    \cup { Binary(a, b, Bop(<<"-">>)) : a \in Atoms, b \in Atoms }
    \cup { Aggregate(Manip(Sequence(<<a, b>>), Operator("Smp", "smp", drop)),
                     Operator("Sop", "sop", <<"s", "u", "m">>)) :
             a \in Atoms, b \in Atoms }

\* the parser returned the derivation tree of program st
Parsed(st, in) ==
    /\ pc = "parse"
    /\ input = in
    /\ todo = << >>
    /\ ntok = 0
    /\ nid = 0
    /\ tree = Program(st)
    /\ node = Nil
    /\ out = << >>
    /\ log = << >>
    /\ panic = FALSE

Run1 == Parse \/ Eval

\* "a b op"
InitBop ==
    \E a \in Operands, b \in Operands, op \in AllBopTexts :
        Parsed(Sequence(<<Binary(Lit(a), Lit(b), Bop(op))>>),
               [shape |-> "bop", a |-> a, b |-> b, op |-> op])

SpecBop == InitBop /\ [][Run1]_vars

\* "l1 .. ln op", op an aggregate
InitSop ==
    \E L \in Stacks, op \in AllSopTexts :
        Parsed(Sequence(<<Aggregate(Sequence([i \in 1..Len(L) |-> Lit(L[i])]),
                                    Operator("Sop", "sop", op))>>),
               [shape |-> "sop", L |-> L, op |-> op])

SpecSop == InitSop /\ [][Run1]_vars

\* "l1 .. ln op", op a stack manipulation
InitSmp ==
    \E L \in Stacks, op \in AllSmpTexts :
        Parsed(Manip(Sequence([i \in 1..Len(L) |-> Lit(L[i])]),
                     Operator("Smp", "smp", op)),
               [shape |-> "smp", L |-> L, op |-> op])

SpecSmp == InitSmp /\ [][Run1]_vars

\* "A B C ?"
InitTernary ==
    \E A \in Exprs, B \in Exprs, C \in Exprs :
        Parsed(Sequence(<<Choice("E", A, B, C)>>),
               [shape |-> "ternary", A |-> A, B |-> B, C |-> C])

SpecTernary == InitTernary /\ [][Run1]_vars

\* "A B op1 op2 C ?"
InitChoice ==
    \E A \in Atoms, B \in Exprs, C \in Exprs, op1 \in BopTexts \cup {<<"+">>},
       op2 \in BopTexts \cup {<<"+">>} :
        Parsed(Sequence(<<Binary(A, B, Choice("Bop", Bop(op1), Bop(op2), C))>>),
               [shape |-> "choice", A |-> A, B |-> B, C |-> C,
                op1 |-> op1, op2 |-> op2])

SpecChoice == InitChoice /\ [][Run1]_vars

\* ------------------------------------------------------------- claims
Calls(fn) == {i \in DOMAIN log : log[i].fn = fn}

CallsOn(fn, id) == {i \in Calls(fn) : log[i].id = id}

RECURSIVE Nodes(_)
Nodes(n) == {n} \cup UNION {Nodes(n.C[i]) : i \in 1..Len(n.C)}

Less(x, y) == x[1] * y[2] < y[1] * x[2]

\* the value of expression e as a program of its own
ValueOf(e) == Head(Run(Sequence(<<e>>)).out).V

Evaluable == {"Number", "uop", "bop", "sop"}

\* C1: Eval("A B C ?") is Eval("B") when the value of C is greater than 0 and
\* Eval("A") when it is less than or equal to 0, for all expressions A, B, C.
TernarySelects ==
    pc = "done" =>
        /\ Gt(ValueOf(input.C), Zero) => out = Run(Sequence(<<input.B>>)).out
        /\ ~Gt(ValueOf(input.C), Zero) /\ ~IsNaN(ValueOf(input.C))
              => out = Run(Sequence(<<input.A>>)).out

\* C2: whenever evalStack handles a "?" node, the condition is the first thing
\* evaluated, it is evaluated exactly once, the node is then evaluated as the
\* selected branch, and no evalE, evalStack or evalSmp call is ever made on the
\* unselected branch or on a node below it.
LazyTernary ==
    pc = "done" =>
        \A i \in Calls("select") :
            LET e     == log[i]
                cond  == e.kids[1]
                enter == {j \in CallsOn("evalStack", e.id) : j < i}
            IN  /\ Cardinality(CallsOn("evalE", cond)) = 1
                /\ enter # {}
                /\ LET j == CHOOSE k \in enter : \A m \in enter : m <= k
                   IN  /\ log[j].kind = "?"
                       /\ log[j + 1].fn = "evalE"
                       /\ log[j + 1].id = cond
                       /\ log[j + 1].from = "cond"
                /\ \A j \in DOMAIN log : log[j].id \notin e.ids
                /\ i < Len(log)
                /\ log[i + 1].fn = "evalStack"
                /\ log[i + 1].id = e.id
                /\ log[i + 1].from = "select"

\* a ternary was evaluated whose unselected branch is an aggregate over a
\* sequence that ends in a stack manipulation
LazyTernaryWitness ==
    /\ pc = "done"
    /\ ~panic
    /\ Len(out) = 1
    /\ \E i \in Calls("select") :
          \E m \in Nodes(node) :
              /\ m.kind = "sop"
              /\ m.id \in log[i].ids
              /\ \E k \in Nodes(m) : k.kind = "smp"

\* C3: every "?" node of a canonicalized tree has exactly three children.
TernaryShape ==
    pc \in {"reduced", "done"} =>
        \A n \in Nodes(node) : n.kind = "?" => Len(n.C) = 3

\* C4: every child the Stack/smp case of evalStack passes to evalE is a Number,
\* uop, bop or sop node.
StackElementsEvaluable ==
    pc = "done" =>
        \A i \in Calls("evalE") : log[i].from = "stack" => log[i].kind \in Evaluable

\* C5: swap exchanges the last two children (none when fewer than two), drop
\* removes the last one (none when empty), clear removes all; the list is
\* changed before any element is evaluated, and the result holds one value per
\* remaining child, in order.
StackManipulation ==
    pc = "done" =>
        LET n == Len(input.L)
            D == [i \in 1..n |-> Denoted(input.L[i])]
            elems == SelectSeq(log, LAMBDA e : e.fn = "evalE" /\ e.from = "stack")
        IN  /\ ~panic
            /\ input.op = swap /\ n >= 2 =>
                 out = SubSeq(D, 1, n - 2) \o <<D[n], D[n - 1]>>
            /\ input.op = swap /\ n < 2 => out = D
            /\ input.op = drop /\ n >= 1 => out = SubSeq(D, 1, n - 1)
            /\ input.op = drop /\ n = 0 => out = << >>
            /\ input.op = clear => out = << >>
            /\ Cardinality(Calls("evalSmp")) = 1
            /\ \A i \in Calls("evalSmp"), j \in Calls("evalE") : i < j
            /\ out = [i \in 1..Len(elems) |-> elems[i].res]

\* three elements were swapped
StackManipulationWitness ==
    /\ pc = "done"
    /\ input.op = swap
    /\ Len(input.L) = 3
    /\ Len(out) = 3
    /\ out[2] = Denoted(input.L[3])
    /\ out[2] # out[3]

\* C6: the precision of evalBop's result is the larger of its operands'
\* precisions, for every operator; a comparison yields 1 or 0 (cmpr: 1, 0 or -1)
\* at that precision; the left operand is evaluated before the right one.
BopPrecision ==
    pc = "done" =>
        LET a == input.a
            b == input.b
            l == tree.C[1].C[1].id
            r == tree.C[1].C[2].id
        IN  /\ ~panic
            /\ Len(out) = 1
            /\ out[1].P = IF a.p > b.p THEN a.p ELSE b.p
            /\ input.op = <<">">> => out[1].V = IF Less(b.v, a.v) THEN One ELSE Zero
            /\ input.op = <<"<">> => out[1].V = IF Less(a.v, b.v) THEN One ELSE Zero
            /\ input.op = <<"=">> => out[1].V = IF a.v = b.v THEN One ELSE Zero
            /\ input.op = <<"c", "m", "p", "r">> =>
                 out[1].V = IF Less(b.v, a.v) THEN One
                            ELSE IF Less(a.v, b.v) THEN <<-1, 1>> ELSE Zero
            /\ Cardinality(CallsOn("evalE", l)) = 1
            /\ Cardinality(CallsOn("evalE", r)) = 1
            /\ \A i \in CallsOn("evalE", l), j \in CallsOn("evalE", r) : i < j

\* a comparison of a coarser left operand with a finer right one
BopPrecisionWitness ==
    /\ pc = "done"
    /\ input.op = <<">">>
    /\ input.a.p = 0
    /\ input.b.p = 2
    /\ out = <<Pfloat(One, 2)>>

\* C7: "last" returns the first element, "first" the last one, min the first
\* element with the smallest value, max the first with the largest, each the
\* element itself with its precision and the zero value on the empty sequence;
\* len returns the count at precision 0.
SelectionAggregates ==
    pc = "done" =>
        LET n == Len(input.L)
            D == [i \in 1..n |-> Denoted(input.L[i])]
            op == input.op
        IN  /\ ~panic
            /\ Len(out) = 1
            /\ op = <<"l", "a", "s", "t">> =>
                 out[1] = IF n = 0 THEN PfloatZero ELSE D[1]
            /\ op = <<"f", "i", "r", "s", "t">> =>
                 out[1] = IF n = 0 THEN PfloatZero ELSE D[n]
            /\ op = <<"m", "i", "n">> =>
                 IF n = 0 THEN out[1] = PfloatZero
                 ELSE \E i \in 1..n :
                        /\ out[1] = D[i]
                        /\ \A j \in 1..n : ~Less(D[j].V, D[i].V)
                        /\ \A j \in 1..(i - 1) : Less(D[i].V, D[j].V)
            /\ op = <<"m", "a", "x">> =>
                 IF n = 0 THEN out[1] = PfloatZero
                 ELSE \E i \in 1..n :
                        /\ out[1] = D[i]
                        /\ \A j \in 1..n : ~Less(D[i].V, D[j].V)
                        /\ \A j \in 1..(i - 1) : Less(D[j].V, D[i].V)
            /\ op = <<"l", "e", "n">> => out[1] = Pfloat(<<n, 1>>, 0)

\* max over three elements, the largest two equal in value and not in precision
SelectionAggregatesWitness ==
    /\ pc = "done"
    /\ input.op = <<"m", "a", "x">>
    /\ Len(input.L) = 3
    /\ input.L[1].v = <<3, 2>>
    /\ input.L[2].v = <<2, 1>> /\ input.L[2].p = 1
    /\ input.L[3].v = <<2, 1>> /\ input.L[3].p = 0
    /\ out = <<Pfloat(<<2, 1>>, 1)>>

\* the most digits after the point of any literal of the program
RECURSIVE MaxDigits(_)
MaxDigits(n) ==
    LET own  == IF n.kind = "dec" THEN Len(n.value) - 1 ELSE 0
        subs == {MaxDigits(n.C[i]) : i \in 1..Len(n.C)} \cup {own}
    IN  CHOOSE m \in subs : \A k \in subs : k <= m

\* C8: every Pfloat produced during evaluation has a precision that is at least
\* 0 and at most the most digits after the point of any literal of the program.
PrecisionInvariant ==
    pc = "done" =>
        /\ \A i \in Calls("evalE") :
               log[i].res.P >= 0 /\ log[i].res.P <= MaxDigits(tree)
        /\ \A i \in DOMAIN out : out[i].P >= 0 /\ out[i].P <= MaxDigits(tree)

\* C9: evaluation never panics; a Number whose text does not parse, and a node
\* of a kind evalE does not know, evaluate to {0, 0}.
LenientZeroDefaults ==
    pc = "done" =>
        /\ ~panic
        /\ \A i \in Calls("evalE") :
               /\ log[i].bad => log[i].res = PfloatZero
               /\ log[i].kind \notin Evaluable => log[i].res = PfloatZero

\* C10: "A B op1 op2 C ?" evaluates C first, then returns [A op2 B] when the
\* value of C is greater than 0 and [A op1 B] otherwise; A and B are evaluated
\* once each and the discarded operator is never applied.
OperatorChoice ==
    pc = "done" =>
        LET pos == Gt(ValueOf(input.C), Zero)
            op  == IF pos THEN input.op2 ELSE input.op1
            bin == tree.C[1]
            gone == bin.C[3].C[IF pos THEN 1 ELSE 2]
        IN  /\ ~panic
            /\ out = Run(Sequence(<<Binary(input.A, input.B, Bop(op))>>)).out
            /\ Len(out) = 1
            /\ log[1].fn = "evalStack" /\ log[2].fn = "evalE" /\ log[2].from = "cond"
            /\ log[2].id = bin.C[3].C[3].id
            /\ Cardinality(CallsOn("evalE", bin.C[1].id)) = 1
            /\ Cardinality(CallsOn("evalE", bin.C[2].id)) = 1
            /\ \A i \in DOMAIN log : log[i].id \notin Ids(gone)

====
